---- MODULE Spec2Model ----
(***************************************************************************)
(* Configuration resolution of the ClickUp MCP server (src/src/config.ts). *)
(*                                                                         *)
(* A string is a sequence of one-character strings, so that split, trim    *)
(* and toUpperCase are computed character by character.  A value of type   *)
(* `string | undefined` is a record [def, val]: Undefined or Str(s).       *)
(***************************************************************************)
EXTENDS Integers, Sequences, FiniteSets, TLC

VARIABLES args, env, i, envArgs, pc, configuration, errors

vars == <<args, env, i, envArgs, pc, configuration, errors>>

----------------------------------------------------------------------------
(* string | undefined *)

Undefined == [def |-> FALSE, val |-> <<>>]

Str(s) == [def |-> TRUE, val |-> s]

\* JavaScript truthiness of a string | undefined: defined and not ''.
Truthy(o) == o.def /\ o.val # <<>>

\* Faulty variant: a ?? b, which keeps an empty string.
NullishOr(a, b) == IF a.def THEN a ELSE b

\* a || b on string | undefined operands.
Or(a, b) == IF Truthy(a) THEN a ELSE b

----------------------------------------------------------------------------
(* String.prototype.split / trim / toUpperCase *)

HasChar(s, c) == \E k \in 1..Len(s) : s[k] = c

FirstIndex(s, c) == CHOOSE k \in 1..Len(s) : s[k] = c /\ \A j \in 1..(k - 1) : s[j] # c

RECURSIVE Split(_, _)
\* s.split(sep) for a one-character separator: every segment, empty ones included.
Split(s, sep) ==
    IF ~HasChar(s, sep) THEN <<s>>
    ELSE LET k == FirstIndex(s, sep)
         IN <<SubSeq(s, 1, k - 1)>> \o Split(SubSeq(s, k + 1, Len(s)), sep)

WhiteSpace == {" ", "\t"}

RECURSIVE TrimStart(_)
TrimStart(s) ==
    IF s # <<>> /\ Head(s) \in WhiteSpace THEN TrimStart(Tail(s)) ELSE s

RECURSIVE TrimEnd(_)
TrimEnd(s) ==
    IF s # <<>> /\ s[Len(s)] \in WhiteSpace THEN TrimEnd(SubSeq(s, 1, Len(s) - 1)) ELSE s

\* s.trim()
Trim(s) == TrimEnd(TrimStart(s))

LowerCase == <<"a", "b", "c", "d", "e", "f", "g", "h", "i", "j", "k", "l", "m",
               "n", "o", "p", "q", "r", "s", "t", "u", "v", "w", "x", "y", "z">>

UpperCase == <<"A", "B", "C", "D", "E", "F", "G", "H", "I", "J", "K", "L", "M",
               "N", "O", "P", "Q", "R", "S", "T", "U", "V", "W", "X", "Y", "Z">>

ToUpperChar(c) ==
    IF \E k \in 1..Len(LowerCase) : LowerCase[k] = c
    THEN UpperCase[CHOOSE k \in 1..Len(LowerCase) : LowerCase[k] = c]
    ELSE c

\* s.toUpperCase()
ToUpperCase(s) == [k \in 1..Len(s) |-> ToUpperChar(s[k])]

----------------------------------------------------------------------------
(* The literals of config.ts *)

ENV_FLAG == <<"-", "-", "e", "n", "v">>

CLICKUP_API_KEY == <<"C", "L", "I", "C", "K", "U", "P", "_", "A", "P", "I", "_", "K", "E", "Y">>

CLICKUP_TEAM_ID == <<"C", "L", "I", "C", "K", "U", "P", "_", "T", "E", "A", "M", "_", "I", "D">>

DOCUMENT_SUPPORT == <<"D", "O", "C", "U", "M", "E", "N", "T", "_", "S", "U", "P", "P", "O", "R", "T">>

DOCUMENT_MODEL == <<"D", "O", "C", "U", "M", "E", "N", "T", "_", "M", "O", "D", "E", "L">>

DOCUMENT_MODULE == <<"D", "O", "C", "U", "M", "E", "N", "T", "_", "M", "O", "D", "U", "L", "E">>

LOG_LEVEL == <<"L", "O", "G", "_", "L", "E", "V", "E", "L">>

DISABLED_TOOLS == <<"D", "I", "S", "A", "B", "L", "E", "D", "_", "T", "O", "O", "L", "S">>

DISABLED_COMMANDS == <<"D", "I", "S", "A", "B", "L", "E", "D", "_", "C", "O", "M", "M", "A", "N", "D", "S">>

ENABLE_SSE == <<"E", "N", "A", "B", "L", "E", "_", "S", "S", "E">>

ENABLE_OAUTH == <<"E", "N", "A", "B", "L", "E", "_", "O", "A", "U", "T", "H">>

PORT == <<"P", "O", "R", "T">>

TRUE_STR == <<"t", "r", "u", "e">>

FALSE_STR == <<"f", "a", "l", "s", "e">>

DEFAULT_PORT == <<"3", "2", "3", "1">>

LogLevel == [TRACE |-> 0, DEBUG |-> 1, INFO |-> 2, WARN |-> 3, ERROR |-> 4]

----------------------------------------------------------------------------
(* The argument loop *)

\* args[k] with the code's 0-based index.
At(a, k) == a[k + 1]

\* const envArgs = {}: no field is set.
EmptyEnvArgs ==
    [clickupApiKey |-> Undefined, clickupTeamId |-> Undefined,
     documentSupport |-> Undefined, logLevel |-> Undefined,
     disabledTools |-> Undefined, enableSSE |-> Undefined,
     enableOAuth |-> Undefined, port |-> Undefined]

\* args[i] === '--env' && i + 1 < args.length
IsEnvPair(a, idx) == At(a, idx) = ENV_FLAG /\ idx + 1 < Len(a)

\* const [key, value] = token.split('='): the first two segments.
SplitKey(token) == Split(token, "=")[1]

SplitValue(token) ==
    LET parts == Split(token, "=")
    IN IF Len(parts) >= 2 THEN Str(parts[2]) ELSE Undefined

\* Faulty variant: the legacy names are not assigned.
AssignKeyWithoutLegacy(ea, key, value) ==
    [clickupApiKey   |-> IF key = CLICKUP_API_KEY THEN value ELSE ea.clickupApiKey,
     clickupTeamId   |-> IF key = CLICKUP_TEAM_ID THEN value ELSE ea.clickupTeamId,
     documentSupport |-> IF key = DOCUMENT_SUPPORT THEN value ELSE ea.documentSupport,
     logLevel        |-> IF key = LOG_LEVEL THEN value ELSE ea.logLevel,
     disabledTools   |-> IF key = DISABLED_TOOLS THEN value ELSE ea.disabledTools,
     enableSSE       |-> IF key = ENABLE_SSE THEN value ELSE ea.enableSSE,
     enableOAuth     |-> IF key = ENABLE_OAUTH THEN value ELSE ea.enableOAuth,
     port            |-> IF key = PORT THEN value ELSE ea.port]

\* The chain of `if (key === ...) envArgs.f = value` statements.
AssignKey(ea, key, value) ==
    [clickupApiKey   |-> IF key = CLICKUP_API_KEY THEN value ELSE ea.clickupApiKey,
     clickupTeamId   |-> IF key = CLICKUP_TEAM_ID THEN value ELSE ea.clickupTeamId,
     documentSupport |-> IF key = DOCUMENT_SUPPORT \/ key = DOCUMENT_MODEL
                            \/ key = DOCUMENT_MODULE
                         THEN value ELSE ea.documentSupport,
     logLevel        |-> IF key = LOG_LEVEL THEN value ELSE ea.logLevel,
     disabledTools   |-> IF key = DISABLED_TOOLS \/ key = DISABLED_COMMANDS
                         THEN value ELSE ea.disabledTools,
     enableSSE       |-> IF key = ENABLE_SSE THEN value ELSE ea.enableSSE,
     enableOAuth     |-> IF key = ENABLE_OAUTH THEN value ELSE ea.enableOAuth,
     port            |-> IF key = PORT THEN value ELSE ea.port]

\* The body of the `if` for the pair at idx.
EnvPairBody(a, idx, ea) ==
    AssignKey(ea, SplitKey(At(a, idx + 1)), SplitValue(At(a, idx + 1)))

RECURSIVE RunLoop(_, _, _)
\* The whole for loop from index idx on, as a function of the argument list.
RunLoop(a, idx, ea) ==
    IF idx >= Len(a) THEN ea
    ELSE IF IsEnvPair(a, idx) THEN RunLoop(a, idx + 2, EnvPairBody(a, idx, ea))
    ELSE RunLoop(a, idx + 1, ea)

ParseArgs(a) == RunLoop(a, 0, EmptyEnvArgs)

----------------------------------------------------------------------------
(* parseLogLevel and the configuration object *)

\* Faulty variant: the switch without toUpperCase().
parseLogLevelCaseSensitive(levelStr) ==
    IF ~Truthy(levelStr) THEN LogLevel.ERROR
    ELSE LET up == levelStr.val
         IN CASE up = <<"T", "R", "A", "C", "E">> -> LogLevel.TRACE
              [] up = <<"D", "E", "B", "U", "G">> -> LogLevel.DEBUG
              [] up = <<"I", "N", "F", "O">> -> LogLevel.INFO
              [] up = <<"W", "A", "R", "N">> -> LogLevel.WARN
              [] up = <<"E", "R", "R", "O", "R">> -> LogLevel.ERROR
              [] OTHER -> LogLevel.ERROR

parseLogLevel(levelStr) ==
    IF ~Truthy(levelStr) THEN LogLevel.ERROR
    ELSE LET up == ToUpperCase(levelStr.val)
         IN CASE up = <<"T", "R", "A", "C", "E">> -> LogLevel.TRACE
              [] up = <<"D", "E", "B", "U", "G">> -> LogLevel.DEBUG
              [] up = <<"I", "N", "F", "O">> -> LogLevel.INFO
              [] up = <<"W", "A", "R", "N">> -> LogLevel.WARN
              [] up = <<"E", "R", "R", "O", "R">> -> LogLevel.ERROR
              [] OTHER -> LogLevel.ERROR

\* .filter(cmd => cmd !== '') after .map(cmd => cmd.trim())
NonEmpty(s) == s # <<>>

TrimAll(parts) == [k \in 1..Len(parts) |-> Trim(parts[k])]

\* Faulty variant: the elements are not trimmed.
ParseDisabledToolsUntrimmed(raw) ==
    IF ~raw.def THEN <<>>
    ELSE SelectSeq(Split(raw.val, ","), NonEmpty)

\* raw?.split(',').map(trim).filter(nonempty) || []
ParseDisabledTools(raw) ==
    IF ~raw.def THEN <<>>
    ELSE SelectSeq(TrimAll(Split(raw.val, ",")), NonEmpty)

ResolveApiKey(ea, e) == Or(Or(ea.clickupApiKey, e.CLICKUP_API_KEY), Str(<<>>)).val

ResolveTeamId(ea, e) == Or(Or(ea.clickupTeamId, e.CLICKUP_TEAM_ID), Str(<<>>)).val

ResolveDocumentSupport(ea, e) ==
    Or(Or(Or(Or(ea.documentSupport, e.DOCUMENT_SUPPORT), e.DOCUMENT_MODULE),
          e.DOCUMENT_MODEL), Str(FALSE_STR)).val

ResolveLogLevel(ea, e) == parseLogLevel(Or(ea.logLevel, e.LOG_LEVEL))

RawDisabledTools(ea, e) ==
    Or(Or(ea.disabledTools, e.DISABLED_TOOLS), e.DISABLED_COMMANDS)

ResolveEnableSSE(ea, e) ==
    ea.enableSSE = Str(TRUE_STR) \/ e.ENABLE_SSE = Str(TRUE_STR) \/ FALSE

ResolveEnableOAuth(ea, e) ==
    ea.enableOAuth = Str(TRUE_STR) \/ e.ENABLE_OAUTH = Str(TRUE_STR) \/ FALSE

ResolvePort(ea, e) == Or(Or(ea.port, e.PORT), Str(DEFAULT_PORT)).val

\* const configuration: Config = { ... }
LoadConfiguration(ea, e) ==
    [clickupApiKey        |-> ResolveApiKey(ea, e),
     clickupTeamId        |-> ResolveTeamId(ea, e),
     enableSponsorMessage |-> e.ENABLE_SPONSOR_MESSAGE # Str(FALSE_STR),
     documentSupport      |-> ResolveDocumentSupport(ea, e),
     logLevel             |-> ResolveLogLevel(ea, e),
     disabledTools        |-> ParseDisabledTools(RawDisabledTools(ea, e)),
     enableSSE            |-> ResolveEnableSSE(ea, e),
     enableOAuth          |-> ResolveEnableOAuth(ea, e),
     port                 |-> ResolvePort(ea, e)]

\* Faulty variant: the team identifier is not required.
requiredVarsApiKeyOnly == <<"clickupApiKey">>

requiredVars == <<"clickupApiKey", "clickupTeamId">>

\* !configuration[key] for the two required (string) fields.
IsMissing(cfg, key) == cfg[key] = <<>>

\* Faulty variant: only the first missing variable is reported.
missingEnvVarsFirstOnly(cfg) ==
    LET Missing(key) == IsMissing(cfg, key)
        all == SelectSeq(requiredVars, Missing)
    IN SubSeq(all, 1, 1)

\* requiredVars.filter(key => !configuration[key]).map(key => key)
missingEnvVars(cfg) ==
    LET Missing(key) == IsMissing(cfg, key) IN SelectSeq(requiredVars, Missing)

EmptyEnv ==
    [CLICKUP_API_KEY |-> Undefined, CLICKUP_TEAM_ID |-> Undefined,
     ENABLE_SPONSOR_MESSAGE |-> Undefined, DOCUMENT_SUPPORT |-> Undefined,
     DOCUMENT_MODULE |-> Undefined, DOCUMENT_MODEL |-> Undefined,
     LOG_LEVEL |-> Undefined, DISABLED_TOOLS |-> Undefined,
     DISABLED_COMMANDS |-> Undefined, ENABLE_SSE |-> Undefined,
     ENABLE_OAUTH |-> Undefined, PORT |-> Undefined]

\* The value of `configuration` before its initializer has run.
NoConfiguration == LoadConfiguration(EmptyEnvArgs, EmptyEnv)

----------------------------------------------------------------------------
(* Inputs: process.argv.slice(2) and process.env *)

MaxArgs == 4

MaxPairs == 2

A == <<"A">>

B == <<"B">>

Empty == <<>>

\* The token KEY=VALUE.
Pair(key, value) == key \o <<"=">> \o value

\* Every argument list of at most n tokens of T.
TokenLists(T, n) == UNION {[1..k -> T] : k \in 0..n}

RECURSIVE PairLists(_, _)
\* Every argument list of at most n `--env token` pairs, the tokens from T.
PairLists(T, n) ==
    IF n = 0 THEN {<<>>}
    ELSE LET shorter == PairLists(T, n - 1)
         IN shorter \cup {p \o <<ENV_FLAG, t>> : p \in shorter, t \in T}

Credentials == [EmptyEnv EXCEPT !.CLICKUP_API_KEY = Str(B), !.CLICKUP_TEAM_ID = Str(B)]

\* Arbitrary token lists: markers, well-formed, malformed and unrecognized tokens.
TokenizerTokens ==
    {ENV_FLAG, Pair(CLICKUP_API_KEY, A), CLICKUP_API_KEY,
     Pair(CLICKUP_API_KEY, <<"a", "b", "=", "c", "d">>),
     Pair(<<"Z">>, A), Pair(CLICKUP_TEAM_ID, Empty)}

TokenizerArgs == TokenLists(TokenizerTokens, MaxArgs)

TokenizerEnvs == {EmptyEnv, Credentials}

\* String fields and the required-variable check: every combination of a
\* CLI value, an environment value and the default.
MergeTokens ==
    {Pair(CLICKUP_API_KEY, A), Pair(CLICKUP_API_KEY, Empty), Pair(CLICKUP_TEAM_ID, A),
     Pair(CLICKUP_TEAM_ID, Empty), Pair(DOCUMENT_SUPPORT, A), Pair(DOCUMENT_SUPPORT, Empty),
     Pair(PORT, A), Pair(PORT, Empty), Pair(ENABLE_OAUTH, TRUE_STR)}

Supplied == {Undefined, Str(Empty), Str(B)}

MergeEnvs ==
    {[EmptyEnv EXCEPT !.CLICKUP_API_KEY = k, !.CLICKUP_TEAM_ID = t,
                      !.DOCUMENT_SUPPORT = d, !.PORT = d, !.ENABLE_OAUTH = o] :
        k \in Supplied, t \in Supplied, d \in Supplied, o \in {Undefined, Str(TRUE_STR)}}

MergeArgs == PairLists(MergeTokens, MaxPairs)

\* The boolean flags.
FlagTokens ==
    {Pair(ENABLE_OAUTH, TRUE_STR), Pair(ENABLE_OAUTH, FALSE_STR),
     Pair(ENABLE_OAUTH, <<"T", "r", "u", "e">>), Pair(ENABLE_OAUTH, Empty),
     Pair(ENABLE_SSE, TRUE_STR), Pair(ENABLE_SSE, FALSE_STR),
     Pair(ENABLE_SSE, <<"T", "R", "U", "E">>), Pair(ENABLE_SSE, <<"1">>)}

FlagEnvs ==
    {[c EXCEPT !.ENABLE_OAUTH = o, !.ENABLE_SSE = s, !.ENABLE_SPONSOR_MESSAGE = m] :
        c \in {EmptyEnv, Credentials},
        o \in {Undefined, Str(TRUE_STR), Str(FALSE_STR)},
        s \in {Undefined, Str(TRUE_STR), Str(<<"T", "R", "U", "E">>)},
        m \in {Undefined, Str(FALSE_STR)}}

FlagArgs == PairLists(FlagTokens, MaxPairs)

\* The synonym groups.
AliasTokens ==
    {Pair(DOCUMENT_SUPPORT, A), Pair(DOCUMENT_MODEL, B), Pair(DOCUMENT_MODULE, <<"C">>),
     Pair(DISABLED_TOOLS, A), Pair(DISABLED_COMMANDS, B)}

AliasEnvs ==
    {[Credentials EXCEPT !.DOCUMENT_SUPPORT = ds, !.DOCUMENT_MODEL = dm,
                         !.DOCUMENT_MODULE = du, !.DISABLED_TOOLS = dt,
                         !.DISABLED_COMMANDS = dc] :
        ds \in {Undefined, Str(<<"x">>)}, dm \in {Undefined, Str(<<"y">>)},
        du \in {Undefined, Str(<<"z">>)}, dt \in {Undefined, Str(<<"x">>)},
        dc \in {Undefined, Str(<<"y">>)}}

AliasArgs == PairLists(AliasTokens, MaxPairs)

\* The disabled-tool list.
ToolsTokens ==
    {Pair(DISABLED_TOOLS, <<" ", "a", ",", " ", "b", " ", ",", ",", "c", " ">>),
     Pair(DISABLED_TOOLS, <<",", ",", " ", ",">>),
     Pair(DISABLED_TOOLS, <<"a", ",", "a">>),
     Pair(DISABLED_TOOLS, <<"a", " ", "b", ",", "\t", "c">>),
     Pair(DISABLED_TOOLS, Empty),
     Pair(DISABLED_COMMANDS, <<"b">>)}

ToolsEnvs ==
    {[Credentials EXCEPT !.DISABLED_TOOLS = dt, !.DISABLED_COMMANDS = dc] :
        dt \in {Undefined, Str(Empty), Str(<<"c", ",", "a">>)},
        dc \in {Undefined, Str(<<" ", "b", " ">>), Str(<<",">>)}}

ToolsArgs == PairLists(ToolsTokens, MaxPairs)

\* The log level.
LevelTokens ==
    {Pair(LOG_LEVEL, <<"d", "e", "b", "u", "g">>), Pair(LOG_LEVEL, <<"D", "E", "B", "U", "G">>),
     Pair(LOG_LEVEL, <<"D", "e", "b", "u", "g">>), Pair(LOG_LEVEL, <<"i", "n", "f", "o">>),
     Pair(LOG_LEVEL, <<"W", "a", "r", "n">>), Pair(LOG_LEVEL, <<"T", "R", "A", "C", "E">>),
     Pair(LOG_LEVEL, <<"e", "r", "r", "o", "r">>),
     Pair(LOG_LEVEL, <<"v", "e", "r", "b", "o", "s", "e">>),
     Pair(LOG_LEVEL, <<"i", "n", "f", "o", "s">>), Pair(LOG_LEVEL, Empty)}

LevelEnvs ==
    {[Credentials EXCEPT !.LOG_LEVEL = l] :
        l \in {Undefined, Str(Empty), Str(<<"t", "r", "a", "c", "e">>),
               Str(<<"W", "A", "R", "N">>), Str(<<"w", "a", "r">>)}}

LevelArgs == PairLists(LevelTokens, MaxPairs)

----------------------------------------------------------------------------
(* The module's top-level statements as a state machine *)

\* The state before the first statement, for an argument list and an environment.
Start(a, e) ==
    /\ args = a
    /\ env = e
    /\ i = 0
    /\ envArgs = EmptyEnvArgs
    /\ pc = "parse"
    /\ configuration = NoConfiguration
    /\ errors = <<>>

Init ==
    \/ \E a \in TokenizerArgs, e \in TokenizerEnvs : Start(a, e)
    \/ \E a \in MergeArgs, e \in MergeEnvs : Start(a, e)
    \/ \E a \in FlagArgs, e \in FlagEnvs : Start(a, e)
    \/ \E a \in AliasArgs, e \in AliasEnvs : Start(a, e)
    \/ \E a \in ToolsArgs, e \in ToolsEnvs : Start(a, e)
    \/ \E a \in LevelArgs, e \in LevelEnvs : Start(a, e)

\* One iteration of the loop that takes the `if`: a marker and the token after it.
ParseEnvPair ==
    /\ pc = "parse"
    /\ i < Len(args)
    /\ IsEnvPair(args, i)
    /\ envArgs' = EnvPairBody(args, i, envArgs)
    /\ i' = i + 2
    /\ UNCHANGED <<args, env, pc, configuration, errors>>

\* One iteration that does not: any other token, or a marker in the last position.
ParseSkip ==
    /\ pc = "parse"
    /\ i < Len(args)
    /\ ~IsEnvPair(args, i)
    /\ i' = i + 1
    /\ UNCHANGED <<args, env, envArgs, pc, configuration, errors>>

\* The loop ends and the configuration object is built.
Load ==
    /\ pc = "parse"
    /\ i >= Len(args)
    /\ configuration' = LoadConfiguration(envArgs, env)
    /\ pc' = "validate"
    /\ UNCHANGED <<args, env, i, envArgs, errors>>

\* The required-variable check: throw, or reach `export default configuration`.
Validate ==
    /\ pc = "validate"
    /\ IF ~configuration.enableOAuth /\ Len(missingEnvVars(configuration)) > 0
       THEN /\ errors' = Append(errors, missingEnvVars(configuration))
            /\ pc' = "thrown"
       ELSE /\ errors' = errors
            /\ pc' = "exported"
    /\ UNCHANGED <<args, env, i, envArgs, configuration>>

Next == ParseEnvPair \/ ParseSkip \/ Load \/ Validate

Spec == Init /\ [][Next]_vars

----------------------------------------------------------------------------
(* Vocabulary of the properties *)

RecognizedKeys ==
    {CLICKUP_API_KEY, CLICKUP_TEAM_ID, DOCUMENT_SUPPORT, DOCUMENT_MODEL,
     DOCUMENT_MODULE, LOG_LEVEL, DISABLED_TOOLS, DISABLED_COMMANDS,
     ENABLE_SSE, ENABLE_OAUTH, PORT}

\* The canonical field a recognized key addresses.
FieldOf(key) ==
    CASE key = CLICKUP_API_KEY -> "clickupApiKey"
      [] key = CLICKUP_TEAM_ID -> "clickupTeamId"
      [] key \in {DOCUMENT_SUPPORT, DOCUMENT_MODEL, DOCUMENT_MODULE} -> "documentSupport"
      [] key = LOG_LEVEL -> "logLevel"
      [] key \in {DISABLED_TOOLS, DISABLED_COMMANDS} -> "disabledTools"
      [] key = ENABLE_SSE -> "enableSSE"
      [] key = ENABLE_OAUTH -> "enableOAuth"
      [] key = PORT -> "port"

\* The part of a token before its first '=' and the whole remainder after it.
BeforeFirstEquals(token) == SubSeq(token, 1, FirstIndex(token, "=") - 1)

AfterFirstEquals(token) == SubSeq(token, FirstIndex(token, "=") + 1, Len(token))

WellFormed(token) == HasChar(token, "=") /\ BeforeFirstEquals(token) \in RecognizedKeys

RECURSIVE WithoutIgnoredPairs(_)
\* The argument list without the pairs the tokenizer is to ignore: a marker
\* followed by a token that has no '=' or an unrecognized key, and a marker in
\* the last position.
WithoutIgnoredPairs(a) ==
    IF a = <<>> THEN <<>>
    ELSE IF Head(a) # ENV_FLAG THEN <<Head(a)>> \o WithoutIgnoredPairs(Tail(a))
    ELSE IF Len(a) = 1 THEN <<>>
    ELSE IF WellFormed(a[2]) THEN <<a[1], a[2]>> \o WithoutIgnoredPairs(SubSeq(a, 3, Len(a)))
    ELSE WithoutIgnoredPairs(SubSeq(a, 3, Len(a)))

Parsed == pc # "parse"

\* A sequence without its leading and trailing white space, by position.
Strip(s) ==
    LET inked == {k \in 1..Len(s) : s[k] \notin WhiteSpace}
    IN IF inked = {} THEN <<>>
       ELSE SubSeq(s, CHOOSE k \in inked : \A j \in inked : k <= j,
                      CHOOSE k \in inked : \A j \in inked : k >= j)

Flush(current, out) == IF Strip(current) = <<>> THEN out ELSE Append(out, Strip(current))

RECURSIVE ScanList(_, _, _, _)
\* The comma-separated elements of s read left to right, one character at a
\* time: stripped, the empty ones dropped, in order, duplicates kept.
ScanList(s, k, current, out) ==
    IF k > Len(s) THEN Flush(current, out)
    ELSE IF s[k] = "," THEN ScanList(s, k + 1, <<>>, Flush(current, out))
    ELSE ScanList(s, k + 1, Append(current, s[k]), out)

LevelNames ==
    << <<"T", "R", "A", "C", "E">>, <<"D", "E", "B", "U", "G">>, <<"I", "N", "F", "O">>,
       <<"W", "A", "R", "N">>, <<"E", "R", "R", "O", "R">> >>

LevelValues == <<LogLevel.TRACE, LogLevel.DEBUG, LogLevel.INFO, LogLevel.WARN, LogLevel.ERROR>>

SameLetter(c, upper) ==
    c = upper \/ \E k \in 1..Len(UpperCase) : UpperCase[k] = upper /\ LowerCase[k] = c

MatchesIgnoringCase(s, name) ==
    Len(s) = Len(name) /\ \A k \in 1..Len(s) : SameLetter(s[k], name[k])

\* The configuration object has been built.
Loaded == pc \in {"validate", "thrown", "exported"}

Finished == pc \in {"thrown", "exported"}

Present(o) == o.def /\ o.val # <<>>

\* The first present and non-empty of a CLI value and an environment value.
Selected(cli, environment) == IF Present(cli) THEN cli ELSE environment

FirstSupplied(cli, environment, default) ==
    IF Present(cli) THEN cli.val
    ELSE IF Present(environment) THEN environment.val
    ELSE default

Range(seq) == {seq[k] : k \in 1..Len(seq)}

\* The argument list is a list of `--env KEY=VALUE` pairs with recognized keys.
IsPairList(a) ==
    /\ Len(a) % 2 = 0
    /\ \A k \in 1..Len(a) :
         IF k % 2 = 1 THEN a[k] = ENV_FLAG ELSE WellFormed(a[k])

\* The non-empty values the argument list supplies under a key name.
CliValues(a, name) ==
    {AfterFirstEquals(a[k]) : k \in {j \in 1..Len(a) : j % 2 = 0
                                       /\ BeforeFirstEquals(a[j]) = name
                                       /\ AfterFirstEquals(a[j]) # <<>>}}

DocumentNames == {DOCUMENT_SUPPORT, DOCUMENT_MODEL, DOCUMENT_MODULE}

ToolsNames == {DISABLED_TOOLS, DISABLED_COMMANDS}

\* The argument list with the key of every pair named `from` renamed to `to`.
RenameKey(a, from, to) ==
    [k \in 1..Len(a) |->
        IF k % 2 = 0 /\ BeforeFirstEquals(a[k]) = from
        THEN Pair(to, AfterFirstEquals(a[k])) ELSE a[k]]

\* The names of a group that the pairs of the argument list use.
CliNames(a, group) == {n \in group : \E k \in 1..Len(a) : k % 2 = 0 /\ BeforeFirstEquals(a[k]) = n}

CliCount(a, group) ==
    Cardinality({k \in 1..Len(a) : k % 2 = 0 /\ BeforeFirstEquals(a[k]) \in group})

\* The environment that supplies, under the same names, what the pairs of the
\* argument list supply for the two synonym groups.
EnvOfPairs(a) ==
    LET Value(name) ==
            IF CliValues(a, name) = {} THEN Undefined
            ELSE Str(CHOOSE v \in CliValues(a, name) : TRUE)
    IN [EmptyEnv EXCEPT !.DOCUMENT_SUPPORT = Value(DOCUMENT_SUPPORT),
                        !.DOCUMENT_MODEL = Value(DOCUMENT_MODEL),
                        !.DOCUMENT_MODULE = Value(DOCUMENT_MODULE),
                        !.DISABLED_TOOLS = Value(DISABLED_TOOLS),
                        !.DISABLED_COMMANDS = Value(DISABLED_COMMANDS)]

----------------------------------------------------------------------------
(* Properties *)

TypeOK ==
    /\ pc \in {"parse", "validate", "thrown", "exported"}
    /\ i \in 0..(Len(args) + 1)
    /\ Parsed => envArgs = ParseArgs(args)

\* C1: each of API key, team identifier, document support and port resolves
\* to the first present and non-empty of the CLI value, the environment value
\* and the default ('' , '', 'false', '3231'); an empty CLI value counts as
\* not supplied.  For document support the environment value is that of a
\* name of its synonym group.
C1_FirstSuppliedWins ==
    Loaded =>
        /\ configuration.clickupApiKey
             = FirstSupplied(envArgs.clickupApiKey, env.CLICKUP_API_KEY, <<>>)
        /\ configuration.clickupTeamId
             = FirstSupplied(envArgs.clickupTeamId, env.CLICKUP_TEAM_ID, <<>>)
        /\ configuration.port = FirstSupplied(envArgs.port, env.PORT, DEFAULT_PORT)
        /\ LET group == {env.DOCUMENT_SUPPORT, env.DOCUMENT_MODEL, env.DOCUMENT_MODULE}
               supplied == {o.val : o \in {x \in group : Present(x)}}
           IN IF Present(envArgs.documentSupport)
              THEN configuration.documentSupport = envArgs.documentSupport.val
              ELSE IF supplied # {}
              THEN configuration.documentSupport \in supplied
              ELSE configuration.documentSupport = FALSE_STR

\* An empty CLI API key gives way to the environment's, and a non-empty CLI
\* team identifier wins over the environment's.
C1_Witness ==
    /\ Loaded
    /\ envArgs.clickupApiKey = Str(Empty) /\ env.CLICKUP_API_KEY = Str(B)
    /\ configuration.clickupApiKey = B
    /\ envArgs.clickupTeamId = Str(A) /\ env.CLICKUP_TEAM_ID = Str(B)
    /\ configuration.clickupTeamId = A
    /\ configuration.port = DEFAULT_PORT

\* C2: resolution fails if and only if OAuth-enable resolved to false and the
\* API key or the team identifier resolved to ''; with OAuth-enable true it
\* succeeds whatever the two are, and the record keeps their resolved values.
C2_FailsIffRequiredMissingWithoutOAuth ==
    Finished =>
        /\ pc = "thrown" <=>
             (/\ ~configuration.enableOAuth
              /\ (configuration.clickupApiKey = <<>> \/ configuration.clickupTeamId = <<>>))
        /\ pc = "exported" => errors = <<>> /\ configuration = LoadConfiguration(envArgs, env)

C2_Witness ==
    /\ pc = "exported"
    /\ configuration.enableOAuth
    /\ configuration.clickupApiKey = <<>>
    /\ configuration.clickupTeamId = <<>>

\* C4: a failed validation raises exactly one error, which names every
\* required field that resolved to '' and no other field.
C4_ErrorNamesExactlyTheMissing ==
    /\ pc = "thrown" =>
         /\ Len(errors) = 1
         /\ Len(errors[1]) = Cardinality(Range(errors[1]))
         /\ ("clickupApiKey" \in Range(errors[1])) <=> (configuration.clickupApiKey = <<>>)
         /\ ("clickupTeamId" \in Range(errors[1])) <=> (configuration.clickupTeamId = <<>>)
    /\ pc # "thrown" => errors = <<>>

\* Both fields are missing and both are named.
C4_Witness ==
    /\ pc = "thrown"
    /\ configuration.clickupApiKey = <<>> /\ configuration.clickupTeamId = <<>>
    /\ errors = << <<"clickupApiKey", "clickupTeamId">> >>

\* C3: a boolean flag is true if and only if the raw string selected by
\* precedence (the CLI value when present and non-empty, otherwise the
\* environment value) is exactly "true".
C3_FlagIsSelectedRawEqualTrue ==
    Loaded =>
        /\ configuration.enableOAuth
             = (Selected(envArgs.enableOAuth, env.ENABLE_OAUTH) = Str(TRUE_STR))
        /\ configuration.enableSSE
             = (Selected(envArgs.enableSSE, env.ENABLE_SSE) = Str(TRUE_STR))

\* C5: when several names of a synonym group are supplied in one source, the
\* primary name's value is the one kept, and the same name wins whether the
\* names come as CLI pairs or as environment variables.
C5_SameNameWinsInEitherSource ==
    (Loaded /\ IsPairList(args)) =>
        /\ CliValues(args, DOCUMENT_SUPPORT) # {} =>
             /\ envArgs.documentSupport.def
             /\ envArgs.documentSupport.val \in CliValues(args, DOCUMENT_SUPPORT)
        /\ CliValues(args, DISABLED_TOOLS) # {} =>
             /\ envArgs.disabledTools.def
             /\ envArgs.disabledTools.val \in CliValues(args, DISABLED_TOOLS)
        /\ (Present(env.DOCUMENT_SUPPORT) /\ ~Present(envArgs.documentSupport)) =>
             configuration.documentSupport = env.DOCUMENT_SUPPORT.val
        /\ (Present(env.DISABLED_TOOLS) /\ ~Present(envArgs.disabledTools)) =>
             configuration.disabledTools = ScanList(env.DISABLED_TOOLS.val, 1, <<>>, <<>>)
        /\ (\A n \in DocumentNames \cup ToolsNames : Cardinality(CliValues(args, n)) <= 1) =>
             /\ ResolveDocumentSupport(envArgs, EmptyEnv)
                  = ResolveDocumentSupport(EmptyEnvArgs, EnvOfPairs(args))
             /\ RawDisabledTools(envArgs, EmptyEnv)
                  = RawDisabledTools(EmptyEnvArgs, EnvOfPairs(args))

\* C6: a malformed token after --env, a trailing --env and a pair with an
\* unrecognized key leave the mapping unchanged: the final CLI mapping and the
\* configuration are those of the argument list with these pairs removed.
C6_IgnoredPairsChangeNothing ==
    Parsed =>
        /\ envArgs = ParseArgs(WithoutIgnoredPairs(args))
        /\ pc # "validate" =>
             configuration = LoadConfiguration(ParseArgs(WithoutIgnoredPairs(args)), env)

\* C7: a pair KEY=VALUE with a recognized KEY records the entire remainder of
\* the token after its first '=', further '=' characters included.
C7_ValueIsRemainderAfterFirstEquals ==
    [][(/\ pc = "parse"
        /\ i < Len(args)
        /\ IsEnvPair(args, i)
        /\ WellFormed(At(args, i + 1)))
       => envArgs'[FieldOf(BeforeFirstEquals(At(args, i + 1)))]
            = Str(AfterFirstEquals(At(args, i + 1)))]_vars


\* C8: the disabled-tool list is the raw string selected by precedence (CLI,
\* then DISABLED_TOOLS, then DISABLED_COMMANDS of the environment) split on
\* commas, each element trimmed, the empty ones dropped, order and duplicates
\* kept; no raw value, and one of commas and white space only, give the empty list.
C8_DisabledToolsAreTheTrimmedElements ==
    Loaded =>
        LET raw == Selected(envArgs.disabledTools,
                            Selected(env.DISABLED_TOOLS, env.DISABLED_COMMANDS))
        IN /\ Present(raw) => configuration.disabledTools = ScanList(raw.val, 1, <<>>, <<>>)
           /\ ~Present(raw) => configuration.disabledTools = <<>>
           /\ \A k \in 1..Len(configuration.disabledTools) :
                LET tool == configuration.disabledTools[k]
                IN /\ tool # <<>>
                   /\ ~HasChar(tool, ",")
                   /\ tool[1] \notin WhiteSpace /\ tool[Len(tool)] \notin WhiteSpace

\* ' a, b ,,c ' from the command line yields a, b, c.
C8_Witness ==
    /\ Loaded
    /\ envArgs.disabledTools = Str(<<" ", "a", ",", " ", "b", " ", ",", ",", "c", " ">>)
    /\ configuration.disabledTools = << <<"a">>, <<"b">>, <<"c">> >>

\* C9: the log level is that of the level name matching, letter case ignored,
\* the first non-empty of the CLI and the environment LOG_LEVEL; it is ERROR
\* when no name matches, for the empty string and when none is supplied.
C9_LogLevelMatchesIgnoringCase ==
    Loaded =>
        LET raw == Selected(envArgs.logLevel, env.LOG_LEVEL)
            matching == {k \in 1..Len(LevelNames) :
                            Present(raw) /\ MatchesIgnoringCase(raw.val, LevelNames[k])}
        IN /\ \A k \in matching : configuration.logLevel = LevelValues[k]
           /\ matching = {} => configuration.logLevel = LogLevel.ERROR

\* 'Debug' from the command line yields DEBUG.
C9_Witness ==
    /\ Loaded
    /\ envArgs.logLevel = Str(<<"D", "e", "b", "u", "g">>)
    /\ configuration.logLevel = LogLevel.DEBUG

\* C10: a non-empty value supplied under a legacy name alone, as a CLI pair
\* or as an environment variable, resolves to the same document-support value
\* (disabled-tool list) as the same value under the primary name alone, all
\* other inputs the same.
C10_LegacyNameAloneEqualsPrimaryAlone ==
    (Loaded /\ IsPairList(args)) =>
        /\ \A legacy \in {DOCUMENT_MODEL, DOCUMENT_MODULE} :
             (CliCount(args, DocumentNames) = 1 /\ CliValues(args, legacy) # {}) =>
                configuration.documentSupport
                  = LoadConfiguration(ParseArgs(RenameKey(args, legacy, DOCUMENT_SUPPORT)),
                                      env).documentSupport
        /\ (CliCount(args, ToolsNames) = 1 /\ CliValues(args, DISABLED_COMMANDS) # {}) =>
             configuration.disabledTools
               = LoadConfiguration(ParseArgs(RenameKey(args, DISABLED_COMMANDS, DISABLED_TOOLS)),
                                   env).disabledTools
        /\ (Present(env.DOCUMENT_MODEL) /\ ~env.DOCUMENT_SUPPORT.def /\ ~env.DOCUMENT_MODULE.def) =>
             configuration.documentSupport
               = LoadConfiguration(envArgs, [env EXCEPT !.DOCUMENT_SUPPORT = env.DOCUMENT_MODEL,
                                                        !.DOCUMENT_MODEL = Undefined]).documentSupport
        /\ (Present(env.DOCUMENT_MODULE) /\ ~env.DOCUMENT_SUPPORT.def /\ ~env.DOCUMENT_MODEL.def) =>
             configuration.documentSupport
               = LoadConfiguration(envArgs, [env EXCEPT !.DOCUMENT_SUPPORT = env.DOCUMENT_MODULE,
                                                        !.DOCUMENT_MODULE = Undefined]).documentSupport
        /\ (Present(env.DISABLED_COMMANDS) /\ ~env.DISABLED_TOOLS.def) =>
             configuration.disabledTools
               = LoadConfiguration(envArgs, [env EXCEPT !.DISABLED_TOOLS = env.DISABLED_COMMANDS,
                                                        !.DISABLED_COMMANDS = Undefined]).disabledTools

\* DOCUMENT_MODEL alone on the command line and DISABLED_COMMANDS alone in the
\* environment are both taken up.
C10_Witness ==
    /\ Loaded
    /\ args = <<ENV_FLAG, Pair(DOCUMENT_MODEL, B)>>
    /\ configuration.documentSupport = B
    /\ env.DISABLED_COMMANDS = Str(<<"y">>) /\ ~env.DISABLED_TOOLS.def
    /\ configuration.disabledTools = << <<"y">> >>

====
